---- MODULE Spec2Model ----
(***************************************************************************)
(* A model of tmi.misc_utils: the invalid-data formatter                   *)
(* create_invalid_data_str and the two checkers verify_in_list and         *)
(* verify_same_elements that build their error reports with it.            *)
(*                                                                         *)
(* One behaviour of the model is one call.  Init draws the function and    *)
(* its keyword arguments; every action is one stretch of the function's    *)
(* body, from the statement named by pc to the next branch or to the       *)
(* return / raise that ends the call.                                      *)
(*                                                                         *)
(* Python values are records [t |-> type name, v |-> payload].  A Python   *)
(* str is modelled by the sequence of its characters, so that formatting,  *)
(* iteration over a str and the substring test are all computed.           *)
(***************************************************************************)
EXTENDS Integers, Sequences, FiniteSets, TLC

VARIABLES
    fn,      \* the function being called
    kwargs,  \* the call's keyword arguments, in call order: <<[name, value], ...>>
    pc,      \* the position in the function's body
    locals,  \* the local variables bound so far (a function from their names)
    ops,     \* the operations evaluated on the arguments so far, in order
    stdout,  \* the texts printed so far
    result   \* how the call ended: not yet, a returned value, or a raised exception

vars == <<fn, kwargs, pc, locals, ops, stdout, result>>

-----------------------------------------------------------------------------
(* Bounds of the model.                                                     *)

\* longest candidate list of verify_in_list / input of the formatter
MaxLen == 12
\* longest reference list of verify_in_list
MaxRefLen == 1
\* longest list of integers
MaxIntLen == 2
\* longest list handed to verify_same_elements
MaxSameLen == 2
\* most keyword arguments in one call
MaxArgs == 3

-----------------------------------------------------------------------------
(* Python values.                                                           *)

PyS(chars) == [t |-> "str", v |-> chars]
PyI(n)     == [t |-> "int", v |-> n]
PyL(xs)    == [t |-> "list", v |-> xs]
PyNone     == [t |-> "NoneType", v |-> <<>>]

\* a == b on values of the model: equal type and equal payload
PyEq(a, b) == a.t = b.t /\ a.v = b.v

Range(s) == {s[i] : i \in DOMAIN s}

SeqsUpTo(S, n) == UNION {[1..k -> S] : k \in 0..n}

-----------------------------------------------------------------------------
(* The literal texts of the source.                                         *)

\* the text 'You must provide 2 arguments to verify_in_list'
VIL_ARGS_MSG ==
    <<"Y","o","u"," ","m","u","s","t"," ","p","r","o","v","i","d","e"," ","2",
    " ","a","r","g","u","m","e","n","t","s"," ","t","o"," ","v","e","r","i",
    "f","y","_","i","n","_","l","i","s","t">>

\* the text 'You must provide 2 arguments to verify_same_elements'
VSE_ARGS_MSG ==
    <<"Y","o","u"," ","m","u","s","t"," ","p","r","o","v","i","d","e"," ","2",
    " ","a","r","g","u","m","e","n","t","s"," ","t","o"," ","v","e","r","i",
    "f","y","_","s","a","m","e","_","e","l","e","m","e","n","t","s">>

\* the text 'Both arguments provided must be lists or list types'
VSE_CAST_MSG ==
    <<"B","o","t","h"," ","a","r","g","u","m","e","n","t","s"," ","p","r","o",
    "v","i","d","e","d"," ","m","u","s","t"," ","b","e"," ","l","i","s","t",
    "s"," ","o","r"," ","l","i","s","t"," ","t","y","p","e","s">>

\* the text 'Displaying '
TXT_Displaying ==
    <<"D","i","s","p","l","a","y","i","n","g"," ">>

\* the text ' of '
TXT_of ==
    <<" ","o","f"," ">>

\* the text ' invalid value(s) provided for list '
TXT_invalid_for_list ==
    <<" ","i","n","v","a","l","i","d"," ","v","a","l","u","e","(","s",")"," ",
    "p","r","o","v","i","d","e","d"," ","f","o","r"," ","l","i","s","t"," ">>

\* the text '.\n'
TXT_dot_nl ==
    <<".","\n">>

\* the text 'All values in list '
TXT_All_values_in_list ==
    <<"A","l","l"," ","v","a","l","u","e","s"," ","i","n"," ","l","i","s","t",
    " ">>

\* the text ' exist in list '
TXT_exist_in_list ==
    <<" ","e","x","i","s","t"," ","i","n"," ","l","i","s","t"," ">>

\* the text ' value(s) provided for list '
TXT_values_for_list ==
    <<" ","v","a","l","u","e","(","s",")"," ","p","r","o","v","i","d","e","d",
    " ","f","o","r"," ","l","i","s","t"," ">>

\* the text ' and list '
TXT_and_list ==
    <<" ","a","n","d"," ","l","i","s","t"," ">>

\* the text ' are not found in both lists.\n'
TXT_not_in_both ==
    <<" ","a","r","e"," ","n","o","t"," ","f","o","u","n","d"," ","i","n"," ",
    "b","o","t","h"," ","l","i","s","t","s",".","\n">>

\* the text ' missing value(s) for list '
TXT_missing_for_list ==
    <<" ","m","i","s","s","i","n","g"," ","v","a","l","u","e","(","s",")"," ",
    "f","o","r"," ","l","i","s","t"," ">>

\* the text 'List '
TXT_List ==
    <<"L","i","s","t"," ">>

\* the text ' contain the same elements'
TXT_contain_same ==
    <<" ","c","o","n","t","a","i","n"," ","t","h","e"," ","s","a","m","e"," ",
    "e","l","e","m","e","n","t","s">>

-----------------------------------------------------------------------------
(* Text: str(), str.replace, str.format with a fill / align / width spec.   *)

Digits == <<"0", "1", "2", "3", "4", "5", "6", "7", "8", "9">>

\* str(n) of an int n >= 0: its decimal digits
RECURSIVE Dec(_)
Dec(n) == IF n < 10 THEN <<Digits[n + 1]>>
          ELSE Dec(n \div 10) \o <<Digits[(n % 10) + 1]>>

\* str(val) / "{}".format(val) of a str or an int
PyStr(val) == IF val.t = "int" THEN Dec(val.v) ELSE val.v

\* name.replace("_", " ")
ReplaceUnderscore(name) ==
    [i \in 1..Len(name) |-> IF name[i] = "_" THEN " " ELSE name[i]]

Fill(c, n) == [i \in 1..n |-> c]

\* format(s, "<fill><align><width>"): s padded to width, never cut
Pad(s, fill, align, width) ==
    IF Len(s) >= width THEN s
    ELSE LET n == width - Len(s)
         IN  CASE align = "<" -> s \o Fill(fill, n)
               [] align = ">" -> Fill(fill, n) \o s
               [] align = "^" -> Fill(fill, n \div 2) \o s \o Fill(fill, n - (n \div 2))

\* "{:^}".format(s): centred in no width, which is s itself
FormatCentre(s) == s

\* s occurs in t as a contiguous run of characters
IsSubstring(s, t) ==
    \E k \in 0..(Len(t) - Len(s)) : \A i \in 1..Len(s) : t[k + i] = s[i]

-----------------------------------------------------------------------------
(* create_invalid_data_str                                                  *)

\* the slice invalid_data[:10]
DISPLAY_CAP == 10
\* width=12 of the index field
IDX_WIDTH == 12
\* start=1 of enumerate
IDX_START == 1

\* the slice forgotten: every value is shown
Slice_NoCap(xs, n) == xs

\* invalid_data[:n]
Slice(xs, n) == SubSeq(xs, 1, IF Len(xs) < n THEN Len(xs) ELSE n)

\* "{idx:{fill}{align}{width}} {message}\n".format(idx=idx, message=data,
\*  fill=" ", align="<", width=12)
ErrLine(idx, data) ==
    Pad(Dec(idx), " ", "<", IDX_WIDTH) \o <<" ">> \o PyStr(data) \o <<"\n">>

\* the loop over enumerate(shown, start=idx): err_str_data += err_msg
RECURSIVE ErrLines(_, _)
ErrLines(shown, idx) ==
    IF shown = <<>> THEN <<>>
    ELSE ErrLine(idx, Head(shown)) \o ErrLines(Tail(shown), idx + 1)

create_invalid_data_str(invalid_data) ==
    ErrLines(Slice(invalid_data, DISPLAY_CAP), IDX_START)

-----------------------------------------------------------------------------
(* The Python and numpy operations the checkers apply to their arguments.   *)

\* iter(x) succeeds on a list and on a str; on an int it raises TypeError
Iterable(x) == x.t \in {"list", "str"}

\* the items "for val in x" visits: the elements of a list, the characters
\* of a str (each a str of length one)
Items(x) == IF x.t = "list" THEN x.v
            ELSE [i \in 1..Len(x.v) |-> PyS(<<x.v[i]>>)]

\* list(x)
PyList(x) == PyL(Items(x))

\* "val in container" raises TypeError: the container is an int, or it is a
\* str and val is not
InRaises(val, container) ==
    \/ container.t = "int"
    \/ container.t = "str" /\ val.t # "str"

\* "val in container": an element of the list equals val; for a str
\* container, val is a substring of it
PyIn(val, container) ==
    IF container.t = "list"
    THEN \E i \in DOMAIN container.v : PyEq(container.v[i], val)
    ELSE IsSubstring(val.v, container.v)

\* np.asarray(x).ravel() as a sequence: a scalar is an array of one entry
AsArray(x) == IF x.t = "list" THEN x.v ELSE <<x>>

\* np.isin(element, test_elements): one boolean per entry of element, true
\* when the entry equals some entry of test_elements
NpIsin(element, test_elements) ==
    LET e == AsArray(element)
        t == AsArray(test_elements)
    IN  [i \in DOMAIN e |-> \E j \in DOMAIN t : PyEq(e[i], t[j])]

\* ndarray.all() / np.all
NpAll(bools) == \A i \in DOMAIN bools : bools[i]

\* the builtin min
Min(a, b) == IF a < b THEN a ELSE b

\* the ways a call ends
Running == [kind |-> "running", exc |-> "", msg |-> <<>>, cause |-> "", value |-> PyNone]
Return(val) == [kind |-> "return", exc |-> "", msg |-> <<>>, cause |-> "", value |-> val]
Raise(exc, msg, cause) ==
    [kind |-> "raise", exc |-> exc, msg |-> msg, cause |-> cause, value |-> PyNone]

\* the text of the exceptions the interpreter raises itself is not modelled
NoText == <<>>

\* locals with name bound to val
Bind(env, name, val) == (name :> val) @@ env

\* the required number of keyword arguments
N_ARGS == 2

\* only too few arguments refused
WrongArgCount_TooFew(kw) == Len(kw) < N_ARGS

\* len(kwargs) != 2
WrongArgCount(kw) == Len(kw) # N_ARGS

-----------------------------------------------------------------------------
(* verify_in_list                                                           *)

\* [str(val) for val in test_list if val not in good_values]
Difference(test_list, good_values) ==
    LET items == Items(test_list)
        RECURSIVE Keep(_)
        Keep(i) == IF i > Len(items) THEN <<>>
                   ELSE IF ~PyIn(items[i], good_values)
                        THEN <<PyS(PyStr(items[i]))>> \o Keep(i + 1)
                        ELSE Keep(i + 1)
    IN  Keep(1)

\* the comprehension raises TypeError: test_list is not iterable, or the
\* test "val not in good_values" of one of its items raises
DifferenceRaises(test_list, good_values) ==
    \/ ~Iterable(test_list)
    \/ \E i \in DOMAIN Items(test_list) : InRaises(Items(test_list)[i], good_values)

\* the min forgotten: the total given as the number shown
InListHeader_NoMin(difference, test_list_name) ==
    TXT_Displaying \o Dec(Len(difference)) \o TXT_of
        \o Dec(Len(difference)) \o TXT_invalid_for_list
        \o FormatCentre(test_list_name) \o TXT_dot_nl

\* "Displaying {} of {} invalid value(s) provided for list {:^}.\n"
\*     .format(min(len(difference), 10), len(difference), test_list_name)
InListHeader(difference, test_list_name) ==
    TXT_Displaying \o Dec(Min(Len(difference), DISPLAY_CAP)) \o TXT_of
        \o Dec(Len(difference)) \o TXT_invalid_for_list
        \o FormatCentre(test_list_name) \o TXT_dot_nl

\* "All values in list {} exist in list {}".format(a, b)
InListConfirmation(test_list_name, good_values_name) ==
    TXT_All_values_in_list \o test_list_name \o TXT_exist_in_list \o good_values_name

\* lines 71-74: the argument count, then the unpacking of kwargs.values()
VIL_CheckArgs ==
    /\ fn = "verify_in_list" /\ pc = "entry"
    /\ ops' = Append(ops, "len")
    /\ IF WrongArgCount(kwargs)
       THEN /\ result' = Raise("ValueError", VIL_ARGS_MSG, "None")
            /\ pc' = "done"
            /\ UNCHANGED locals
       ELSE IF Len(kwargs) # 2
       THEN \* test_list, good_values = kwargs.values() cannot unpack
            /\ result' = Raise("ValueError", NoText, "None")
            /\ pc' = "done"
            /\ UNCHANGED locals
       ELSE /\ locals' = Bind(Bind(locals, "test_list", kwargs[1].value),
                              "good_values", kwargs[2].value)
            /\ pc' = "isin"
            /\ UNCHANGED result
    /\ UNCHANGED <<fn, kwargs, stdout>>

\* line 76: if not np.isin(test_list, good_values).all()
VIL_IsIn ==
    /\ fn = "verify_in_list" /\ pc = "isin"
    /\ ops' = Append(ops, "isin")
    /\ pc' = IF ~NpAll(NpIsin(locals["test_list"], locals["good_values"]))
             THEN "mismatch" ELSE "confirm"
    /\ UNCHANGED <<fn, kwargs, locals, stdout, result>>

\* lines 77-91: the display names, the difference, the error text, the raise
VIL_Mismatch ==
    /\ fn = "verify_in_list" /\ pc = "mismatch"
    /\ LET test_list_name   == ReplaceUnderscore(kwargs[1].name)
           good_values_name == ReplaceUnderscore(kwargs[2].name)
           named == Bind(Bind(locals, "test_list_name", PyS(test_list_name)),
                         "good_values_name", PyS(good_values_name))
       IN  IF DifferenceRaises(locals["test_list"], locals["good_values"])
           THEN /\ locals' = named
                /\ ops' = Append(ops, "in")
                /\ result' = Raise("TypeError", NoText, "None")
           ELSE LET difference ==
                        Difference(locals["test_list"], locals["good_values"])
                    err_str == InListHeader(difference, test_list_name)
                                   \o create_invalid_data_str(difference)
                IN  /\ locals' = Bind(Bind(named, "difference", PyL(difference)),
                                      "err_str", PyS(err_str))
                    /\ ops' = Append(ops, "in")
                    /\ result' = Raise("ValueError", err_str, "None")
    /\ pc' = "done"
    /\ UNCHANGED <<fn, kwargs, stdout>>

\* lines 93-98: the confirmation, printed from the display names
VIL_Confirm ==
    /\ fn = "verify_in_list" /\ pc = "confirm"
    /\ IF {"test_list_name", "good_values_name"} \subseteq DOMAIN locals
       THEN /\ stdout' = Append(stdout,
                    InListConfirmation(locals["test_list_name"].v,
                                       locals["good_values_name"].v))
            /\ result' = Return(PyNone)
       ELSE \* the names are bound in the mismatch branch only
            /\ result' = Raise("UnboundLocalError", NoText, "None")
            /\ UNCHANGED stdout
    /\ pc' = "done"
    /\ UNCHANGED <<fn, kwargs, locals, ops>>

-----------------------------------------------------------------------------
(* verify_same_elements                                                     *)

\* the width of "{:>13} \n"
COUNT_LINE_WIDTH == 13

\* set(xs)
PySet(xs) == Range(xs)

\* the orders in which iterating a set can visit it: the iteration order of
\* a Python set is not fixed by its content
Orders(S) ==
    {o \in [1..Cardinality(S) -> S] : \A i, j \in DOMAIN o : o[i] = o[j] => i = j}

\* a ^ b on sets
SymDiff(a, b) == (a \ b) \cup (b \ a)

\* [str(val) for val in order]
StrAll(order) == [i \in DOMAIN order |-> PyS(PyStr(order[i]))]

\* "{} value(s) provided for list {:^} and list {:^} are not found in both
\*  lists.\n".format(len(missing_vals_total), list_one_name, list_two_name)
SameHeader(missing_vals_total, list_one_name, list_two_name) ==
    Dec(Cardinality(missing_vals_total)) \o TXT_values_for_list
        \o FormatCentre(list_one_name) \o TXT_and_list
        \o FormatCentre(list_two_name) \o TXT_not_in_both

\* ("{:>13} \n").format("Displaying {} of {} missing value(s) for list {}\n"
\*     .format(shown, total, name))
CountLine(shown, total, name) ==
    Pad(TXT_Displaying \o Dec(shown) \o TXT_of \o Dec(total)
            \o TXT_missing_for_list \o name \o <<"\n">>,
        " ", ">", COUNT_LINE_WIDTH) \o <<" ", "\n">>

\* a direction with nothing missing left out of the report
SectionOne_SkipEmpty(missing_vals_1, missing_vals_2, list_one_name) ==
    IF missing_vals_1 = <<>> THEN <<>>
    ELSE CountLine(Min(Len(missing_vals_1), DISPLAY_CAP), Len(missing_vals_2),
                   list_one_name)
             \o create_invalid_data_str(missing_vals_1) \o <<"\n">>

\* lines 141-147: the count line of list one and its block
SectionOne(missing_vals_1, missing_vals_2, list_one_name) ==
    CountLine(Min(Len(missing_vals_1), DISPLAY_CAP), Len(missing_vals_2),
              list_one_name)
        \o create_invalid_data_str(missing_vals_1) \o <<"\n">>

\* lines 149-155: the count line of list two and its block
SectionTwo(missing_vals_1, missing_vals_2, list_two_name) ==
    CountLine(Min(Len(missing_vals_2), DISPLAY_CAP), Len(missing_vals_2),
              list_two_name)
        \o create_invalid_data_str(missing_vals_2) \o <<"\n">>

\* "List {} and list {} contain the same elements".format(a, b)
SameConfirmation(list_one_name, list_two_name) ==
    TXT_List \o list_one_name \o TXT_and_list \o list_two_name \o TXT_contain_same

\* lines 110-113: the argument count, then the unpacking of kwargs.values()
VSE_CheckArgs ==
    /\ fn = "verify_same_elements" /\ pc = "entry"
    /\ ops' = Append(ops, "len")
    /\ IF WrongArgCount(kwargs)
       THEN /\ result' = Raise("ValueError", VSE_ARGS_MSG, "None")
            /\ pc' = "done"
            /\ UNCHANGED locals
       ELSE IF Len(kwargs) # 2
       THEN \* list_one, list_two = kwargs.values() cannot unpack
            /\ result' = Raise("ValueError", NoText, "None")
            /\ pc' = "done"
            /\ UNCHANGED locals
       ELSE /\ locals' = Bind(Bind(locals, "list_one", kwargs[1].value),
                              "list_two", kwargs[2].value)
            /\ pc' = "cast"
            /\ UNCHANGED result
    /\ UNCHANGED <<fn, kwargs, stdout>>

\* list(x) raises TypeError
CastRaises(x) == ~Iterable(x)

\* the "from e" forgotten: the error raised without its cause
CastFailure_Unchained == Raise("ValueError", VSE_CAST_MSG, "None")

\* line 119: raise ValueError(...) from e, e being the TypeError of list()
CastFailure == Raise("ValueError", VSE_CAST_MSG, "TypeError")

\* lines 115-119: both arguments cast to lists, a TypeError turned into the
\* ValueError chained from it
VSE_Cast ==
    /\ fn = "verify_same_elements" /\ pc = "cast"
    /\ ops' = Append(ops, "list")
    /\ IF CastRaises(locals["list_one"])
       THEN /\ result' = CastFailure
            /\ pc' = "done"
            /\ UNCHANGED locals
       ELSE IF CastRaises(locals["list_two"])
       THEN /\ result' = CastFailure
            /\ pc' = "done"
            /\ locals' = Bind(locals, "list_one_cast", PyList(locals["list_one"]))
       ELSE /\ locals' = Bind(Bind(locals, "list_one_cast", PyList(locals["list_one"])),
                              "list_two_cast", PyList(locals["list_two"]))
            /\ pc' = "compare"
            /\ UNCHANGED result
    /\ UNCHANGED <<fn, kwargs, stdout>>

\* line 121: if not np.all(set(list_one_cast) == set(list_two_cast))
VSE_Compare ==
    /\ fn = "verify_same_elements" /\ pc = "compare"
    /\ ops' = Append(ops, "set_eq")
    /\ pc' = IF ~NpAll(<<PySet(locals["list_one_cast"].v)
                            = PySet(locals["list_two_cast"].v)>>)
             THEN "mismatch" ELSE "confirm"
    /\ UNCHANGED <<fn, kwargs, locals, stdout, result>>

\* lines 122-157: the display names, the lists of missing values, each in an
\* order the set iteration picks, the error text, the raise
VSE_Mismatch ==
    /\ fn = "verify_same_elements" /\ pc = "mismatch"
    /\ LET list_one_name == ReplaceUnderscore(kwargs[1].name)
           list_two_name == ReplaceUnderscore(kwargs[2].name)
           set_one == PySet(locals["list_one_cast"].v)
           set_two == PySet(locals["list_two_cast"].v)
           \* the order of missing_vals_total is never read, only its
           \* length: it is kept as the set it lists
           missing_vals_total == SymDiff(set_one, set_two)
       IN  \E o1 \in Orders(set_one \ set_two),
              o2 \in Orders(set_two \ set_one) :
             LET missing_vals_1 == StrAll(o1)
                 missing_vals_2 == StrAll(o2)
                 err_str ==
                     SameHeader(missing_vals_total, list_one_name, list_two_name)
                         \o SectionOne(missing_vals_1, missing_vals_2, list_one_name)
                         \o SectionTwo(missing_vals_1, missing_vals_2, list_two_name)
             IN  /\ locals' =
                        ("list_one_name" :> PyS(list_one_name))
                        @@ ("list_two_name" :> PyS(list_two_name))
                        @@ ("missing_vals_1" :> PyL(missing_vals_1))
                        @@ ("missing_vals_2" :> PyL(missing_vals_2))
                        @@ ("err_str" :> PyS(err_str))
                        @@ locals
                 /\ result' = Raise("ValueError", err_str, "None")
    /\ ops' = Append(ops, "set_diff")
    /\ pc' = "done"
    /\ UNCHANGED <<fn, kwargs, stdout>>

\* lines 159-164: the confirmation, printed from the display names
VSE_Confirm ==
    /\ fn = "verify_same_elements" /\ pc = "confirm"
    /\ IF {"list_one_name", "list_two_name"} \subseteq DOMAIN locals
       THEN /\ stdout' = Append(stdout,
                    SameConfirmation(locals["list_one_name"].v,
                                     locals["list_two_name"].v))
            /\ result' = Return(PyNone)
       ELSE \* the names are bound in the mismatch branch only
            /\ result' = Raise("UnboundLocalError", NoText, "None")
            /\ UNCHANGED stdout
    /\ pc' = "done"
    /\ UNCHANGED <<fn, kwargs, locals, ops>>

\* lines 33-56: the whole formatter, called on its own
FMT_Call ==
    /\ fn = "create_invalid_data_str" /\ pc = "entry"
    /\ ops' = Append(ops, "format")
    /\ result' = Return(PyS(create_invalid_data_str(kwargs[1].value.v)))
    /\ pc' = "done"
    /\ UNCHANGED <<fn, kwargs, locals, stdout>>

-----------------------------------------------------------------------------
(* The calls: the function and its keyword arguments.                       *)

StrElems  == {PyS(<<"a">>), PyS(<<"a", "b">>)}
SameElems == StrElems \cup {PyS(<<"b">>)}
IntElems  == {PyI(7), PyI(12)}

Lists(elems, n) == {PyL(xs) : xs \in SeqsUpTo(elems, n)}

\* the i-th keyword of a call, with or without underscores in it
ArgName(scheme, i) ==
    IF scheme = "underscores" THEN <<"m", "y", "_", "l", "_">> \o Dec(i)
    ELSE <<"n">> \o Dec(i)
Schemes == {"underscores", "plain"}

Call(scheme, values) ==
    [i \in DOMAIN values |-> [name |-> ArgName(scheme, i), value |-> values[i]]]

\* candidate and reference of verify_in_list: lists or scalars, of strs or
\* of ints
InListPairs ==
    ((Lists(StrElems, MaxLen) \cup StrElems)
        \X (Lists(StrElems, MaxRefLen) \cup StrElems))
    \cup
    ((Lists(IntElems, MaxIntLen) \cup IntElems)
        \X (Lists(IntElems, MaxIntLen) \cup IntElems))

\* an argument of verify_same_elements: a list or a scalar
SameValues ==
    Lists(SameElems, MaxSameLen) \cup SameElems
        \cup Lists(IntElems, MaxIntLen) \cup IntElems

\* the arguments of the calls with another number of arguments than two
ArgSamples == {PyL(<<>>), PyL(<<PyS(<<"a">>)>>), PyS(<<"a">>), PyI(7)}
OtherCounts == (0..MaxArgs) \ {N_ARGS}

INVALID_DATA == <<"i", "n", "v", "a", "l", "i", "d", "_", "d", "a", "t", "a">>

Calls(f) ==
    CASE f = "create_invalid_data_str" ->
            {<<[name |-> INVALID_DATA, value |-> xs]>> :
                xs \in Lists(StrElems, MaxLen) \cup Lists(IntElems, MaxIntLen)}
      [] f = "verify_in_list" ->
            {Call(s, <<p[1], p[2]>>) : s \in Schemes, p \in InListPairs}
            \cup {Call("underscores", vs) :
                    vs \in UNION {[1..k -> ArgSamples] : k \in OtherCounts}}
      [] f = "verify_same_elements" ->
            {Call(s, <<a, b>>) : s \in Schemes, a \in SameValues, b \in SameValues}
            \cup {Call("underscores", vs) :
                    vs \in UNION {[1..k -> ArgSamples] : k \in OtherCounts}}

Functions == {"create_invalid_data_str", "verify_in_list", "verify_same_elements"}

Init ==
    /\ fn \in Functions
    /\ kwargs \in Calls(fn)
    /\ pc = "entry"
    /\ locals = <<>>
    /\ ops = <<>>
    /\ stdout = <<>>
    /\ result = Running

Next ==
    \/ FMT_Call
    \/ VIL_CheckArgs
    \/ VIL_IsIn
    \/ VIL_Mismatch
    \/ VIL_Confirm
    \/ VSE_CheckArgs
    \/ VSE_Cast
    \/ VSE_Compare
    \/ VSE_Mismatch
    \/ VSE_Confirm

Spec == Init /\ [][Next]_vars

-----------------------------------------------------------------------------
(* What the properties below read off a finished call.  These definitions  *)
(* state the expected texts on their own terms: a numeral by the number it  *)
(* denotes, a display name and a report line by their characters.           *)

Done == pc = "done"

RaisedValueError == result.kind = "raise" /\ result.exc = "ValueError"

\* the number a text of digits denotes
DigitValue(c) == CHOOSE d \in 0..9 : Digits[d + 1] = c
RECURSIVE ParseDec(_)
ParseDec(t) ==
    IF Len(t) = 1 THEN DigitValue(t[1])
    ELSE 10 * ParseDec(SubSeq(t, 1, Len(t) - 1)) + DigitValue(t[Len(t)])

\* the numeral of n: the digits denoting n, without a leading zero
NumeralOf ==
    [n \in 0..99 |->
        CHOOSE t \in SeqsUpTo(Range(Digits), 2) \ {<<>>} :
            /\ ParseDec(t) = n
            /\ Len(t) > 1 => t[1] # "0"]

\* the string form of a value
StringForm(val) == IF val.t = "int" THEN NumeralOf[val.v] ELSE val.v

\* shown is name with every underscore shown as a space
IsDisplayName(shown, name) ==
    /\ Len(shown) = Len(name)
    /\ \A i \in DOMAIN name :
         shown[i] = (IF name[i] = "_" THEN " " ELSE name[i])
DisplayName(i) == CHOOSE shown \in {ArgName(s, i) : s \in Schemes}
                                    \cup {<<"m", "y", " ", "l", " ">> \o NumeralOf[i]} :
                      IsDisplayName(shown, kwargs[i].name)

\* text cut after each newline
RECURSIVE SplitLines(_)
SplitLines(text) ==
    IF text = <<>> THEN <<>>
    ELSE LET hits == {i \in DOMAIN text : text[i] = "\n"}
             cut  == IF hits = {} THEN Len(text)
                     ELSE CHOOSE i \in hits : \A j \in hits : i <= j
         IN  <<SubSeq(text, 1, cut)>> \o SplitLines(SubSeq(text, cut + 1, Len(text)))

\* line is the report line of the k-th shown value val: the numeral of k at
\* the left of a field of 12 characters, a space, the value, a newline
IsReportLine(line, k, val) ==
    LET num == NumeralOf[k]
        sf  == StringForm(val)
    IN  /\ Len(line) = 12 + 1 + Len(sf) + 1
        /\ \A i \in 1..Len(num) : line[i] = num[i]
        /\ \A i \in (Len(num) + 1)..13 : line[i] = " "
        /\ \A i \in 1..Len(sf) : line[13 + i] = sf[i]
        /\ line[Len(line)] = "\n"

\* block is the report of the first ten of values, one line each, in order
IsReportOf(block, values) ==
    LET lines == SplitLines(block)
    IN  /\ Len(lines) = Min(Len(values), 10)
        /\ \A k \in DOMAIN lines : IsReportLine(lines[k], k, values[k])

\* text ends with tail
EndsWith(text, tail) ==
    /\ Len(text) >= Len(tail)
    /\ SubSeq(text, Len(text) - Len(tail) + 1, Len(text)) = tail

StartsWith(text, head) ==
    /\ Len(text) >= Len(head)
    /\ SubSeq(text, 1, Len(head)) = head

\* the elements of a collection; a scalar counts as its only element
Elements(x) == IF x.t = "list" THEN Range(x.v) ELSE {x}
Entries(x)  == IF x.t = "list" THEN x.v ELSE <<x>>

TwoArgCall(f) == fn = f /\ Len(kwargs) = 2
Candidate == kwargs[1].value
Reference == kwargs[2].value

-----------------------------------------------------------------------------
(* create_invalid_data_str                                                  *)

FmtInput  == kwargs[1].value.v
FmtOutput == result.value.v

\* C7: for every input sequence of length n the formatter returns min(n, 10)
\* lines, the i-th being the index i at the left of a 12-character field, a
\* space, the i-th value and a newline; nothing else is in the output, so it
\* is empty for the empty input and an entry after the tenth adds nothing: its
\* text occurs in the output only where one of the first ten values has it.
C7_FormatterOutput ==
    (fn = "create_invalid_data_str" /\ Done) =>
        /\ result.kind = "return"
        /\ result.value.t = "str"
        /\ IsReportOf(FmtOutput, FmtInput)
        /\ FmtInput = <<>> => FmtOutput = <<>>
        /\ \A i \in DOMAIN FmtInput :
             (i > 10 /\ IsSubstring(StringForm(FmtInput[i]), FmtOutput)) =>
                 \E j \in 1..10 :
                     IsSubstring(StringForm(FmtInput[i]), StringForm(FmtInput[j]))

\* a finished formatter call on more than ten values, the eleventh unlike
\* all of the first ten
C7_Witness ==
    /\ fn = "create_invalid_data_str" /\ Done
    /\ Len(FmtInput) > 10
    /\ \A j \in 1..10 : FmtInput[j] = PyS(<<"a">>)
    /\ FmtInput[11] = PyS(<<"a", "b">>)

-----------------------------------------------------------------------------
(* verify_in_list                                                           *)

\* the candidate entries absent from the reference, in their original order,
\* duplicates kept
Absent == SelectSeq(Entries(Candidate), LAMBDA e : e \notin Elements(Reference))

\* the error text of verify_in_list that reports the values offending, shown
\* under the display name shown
InListReport(text, offending, shown) ==
    LET head == TXT_Displaying \o NumeralOf[Min(Len(offending), 10)] \o TXT_of
                    \o NumeralOf[Len(offending)] \o TXT_invalid_for_list
                    \o shown \o <<".", "\n">>
    IN  /\ StartsWith(text, head)
        /\ IsReportOf(SubSeq(text, Len(head) + 1, Len(text)), offending)

\* C1: a call with two arguments whose candidate has all its elements in the
\* reference prints the confirmation naming both display names and returns
\* None, raising nothing.
C1_SubsetSucceeds ==
    (TwoArgCall("verify_in_list") /\ Done
        /\ Elements(Candidate) \subseteq Elements(Reference)) =>
            /\ result = Return(PyNone)
            /\ stdout = <<TXT_All_values_in_list \o DisplayName(1)
                            \o TXT_exist_in_list \o DisplayName(2)>>

C9_ScalarIsOneElement ==
    (TwoArgCall("verify_in_list") /\ Done /\ Candidate.t \in {"str", "int"}) =>
        IF Candidate \in Elements(Reference)
        THEN "test_list_name" \notin DOMAIN locals
        ELSE /\ RaisedValueError
             /\ InListReport(result.msg, <<Candidate>>, DisplayName(1))

\* C10: whenever the call raises its ValueError report, the reported values
\* are the string forms of exactly the candidate entries that np.isin found
\* in no entry of the reference, and there is at least one of them.
C10_ReportAgreesWithTest ==
    (TwoArgCall("verify_in_list") /\ Done /\ RaisedValueError) =>
        /\ "difference" \in DOMAIN locals
        /\ locals["difference"].v # <<>>
        /\ Len(locals["difference"].v) = Len(Absent)
        /\ \A i \in DOMAIN Absent :
             locals["difference"].v[i] = PyS(StringForm(Absent[i]))
        /\ InListReport(result.msg, Absent, DisplayName(1))

-----------------------------------------------------------------------------
(* verify_same_elements                                                     *)

\* the distinct elements of an argument taken as a sequence: the elements of
\* a list, the characters of a str
DistinctOf(x) ==
    IF x.t = "list" THEN Range(x.v) ELSE {PyS(<<x.v[i]>>) : i \in DOMAIN x.v}
Convertible(x) == x.t \in {"list", "str"}

OnlyInOne == DistinctOf(kwargs[1].value) \ DistinctOf(kwargs[2].value)
OnlyInTwo == DistinctOf(kwargs[2].value) \ DistinctOf(kwargs[1].value)
ShownOne  == Min(Cardinality(OnlyInOne), 10)
ShownTwo  == Min(Cardinality(OnlyInTwo), 10)

\* a finished call that found the two sets of distinct elements to differ
SetsDiffer ==
    /\ TwoArgCall("verify_same_elements") /\ Done
    /\ Convertible(kwargs[1].value) /\ Convertible(kwargs[2].value)
    /\ DistinctOf(kwargs[1].value) # DistinctOf(kwargs[2].value)

ReportLines == SplitLines(result.msg)

\* line is a count line for the list shown, whatever the counts in it
IsCountLine(line, shown) ==
    /\ StartsWith(line, TXT_Displaying)
    /\ EndsWith(line, TXT_missing_for_list \o shown \o <<"\n">>)

\* line is the count line giving n of m missing values for the list shown
IsCountLineOf(line, n, m, shown) ==
    line = TXT_Displaying \o NumeralOf[n] \o TXT_of \o NumeralOf[m]
               \o TXT_missing_for_list \o shown \o <<"\n">>

\* the lines from+1 .. from+n of the report list the first n of the values of
\* S, in one of the orders of S
ListsValuesOf(from, n, S) ==
    \E o \in Orders(S) :
        \A k \in 1..n : IsReportLine(ReportLines[from + k], k, o[k])

\* the report has its nine parts: the first line, and for each list its count
\* line, the line closing it, its block and the line closing the block
HasBothSections ==
    /\ Len(ReportLines) = 7 + ShownOne + ShownTwo
    /\ IsCountLine(ReportLines[2], DisplayName(1))
    /\ ReportLines[3] = <<" ", "\n">>
    /\ ListsValuesOf(3, ShownOne, OnlyInOne)
    /\ ReportLines[4 + ShownOne] = <<"\n">>
    /\ IsCountLine(ReportLines[5 + ShownOne], DisplayName(2))
    /\ ReportLines[6 + ShownOne] = <<" ", "\n">>
    /\ ListsValuesOf(6 + ShownOne, ShownTwo, OnlyInTwo)
    /\ ReportLines[7 + ShownOne + ShownTwo] = <<"\n">>

\* C2: a call with two arguments that convert to sequences with the same
\* distinct elements prints the confirmation naming both display names and
\* returns None, raising nothing.
C2_SameSetsSucceed ==
    (TwoArgCall("verify_same_elements") /\ Done
        /\ Convertible(kwargs[1].value) /\ Convertible(kwargs[2].value)
        /\ DistinctOf(kwargs[1].value) = DistinctOf(kwargs[2].value)) =>
            /\ result = Return(PyNone)
            /\ stdout = <<TXT_List \o DisplayName(1) \o TXT_and_list
                            \o DisplayName(2) \o TXT_contain_same>>

\* C4: when the sets differ, the count line of each list gives the counts of
\* its own direction: min(|A-B|, 10) of |A-B| for the first list, followed by
\* the block of A-B, and min(|B-A|, 10) of |B-A| for the second, followed by
\* the block of B-A.
C4_CountsOfOwnDirection ==
    SetsDiffer =>
        /\ RaisedValueError
        /\ HasBothSections
        /\ IsCountLineOf(ReportLines[2], ShownOne, Cardinality(OnlyInOne),
                         DisplayName(1))
        /\ IsCountLineOf(ReportLines[5 + ShownOne], ShownTwo,
                         Cardinality(OnlyInTwo), DisplayName(2))

\* C5: a call of either checker with another number of arguments than two
\* ends in the ValueError asking for 2 arguments, whatever the arguments are,
\* and nothing but the count was evaluated before: nothing unpacked,
\* converted, tested for membership or compared.
C5_ArgCountFirst ==
    (fn \in {"verify_in_list", "verify_same_elements"} /\ Len(kwargs) # 2) =>
        /\ pc \in {"entry", "done"}
        /\ Done =>
            /\ result = Raise("ValueError",
                              IF fn = "verify_in_list" THEN VIL_ARGS_MSG
                              ELSE VSE_ARGS_MSG,
                              "None")
            /\ ops = <<"len">>
            /\ DOMAIN locals = {}
            /\ stdout = <<>>

\* a finished call of verify_same_elements with three arguments, one of them
\* not even a collection
C5_Witness ==
    /\ fn = "verify_same_elements" /\ Done
    /\ Len(kwargs) = 3
    /\ kwargs[1].value.t = "int"
    /\ kwargs[3].value.t = "list"

\* C6: a call with two arguments, one or both of them an int, which does not
\* convert to a sequence, ends in the ValueError asking for lists, chained
\* from the TypeError of the conversion; it is not the error reporting a
\* mismatch, and the sets are never compared.
C6_NotConvertible ==
    (TwoArgCall("verify_same_elements") /\ Done
        /\ (kwargs[1].value.t = "int" \/ kwargs[2].value.t = "int")) =>
            /\ RaisedValueError
            /\ result.msg = VSE_CAST_MSG
            /\ result.cause = "TypeError"
            /\ ~EndsWith(ReportLines[1], TXT_not_in_both)
            /\ "set_eq" \notin Range(ops)
            /\ "set_diff" \notin Range(ops)

\* a finished call whose first argument is a list and whose second is an int
C6_Witness ==
    /\ TwoArgCall("verify_same_elements") /\ Done
    /\ kwargs[1].value.t = "list" /\ kwargs[1].value.v # <<>>
    /\ kwargs[2].value.t = "int"

\* C8: when the sets differ, the first line of the error gives the size of the
\* symmetric difference, |A-B| + |B-A|, and names both display names; the
\* section of the first list and then that of the second follow, each with
\* its count line and its block, also when A-B or B-A is empty: the block is
\* then empty and the section is still there.
C8_TotalAndBothSections ==
    SetsDiffer =>
        /\ RaisedValueError
        /\ ReportLines[1] =
               NumeralOf[Cardinality(OnlyInOne) + Cardinality(OnlyInTwo)]
                   \o TXT_values_for_list \o DisplayName(1) \o TXT_and_list
                   \o DisplayName(2) \o TXT_not_in_both
        /\ HasBothSections

\* a finished call with nothing missing from the first list, two values
\* missing from the second, and an underscore in the names
C8_Witness ==
    /\ SetsDiffer
    /\ OnlyInOne = {}
    /\ Cardinality(OnlyInTwo) = 2
    /\ kwargs[1].name # DisplayName(1)
    /\ RaisedValueError

====
